---- MODULE Spec2Model ----
(***************************************************************************)
(* The 0/1-knapsack engines of lp_dynamic: exhaustive search, branch and   *)
(* bound, Rod's domination technique (plain and sorted) and dynamic        *)
(* programming, as run by main through run_algorithm.                      *)
(*                                                                         *)
(* A Go slice of Items is modelled as a reference into a memory of arrays: *)
(* mem is a sequence of arrays, a reference is an index into it, Nil is    *)
(* the nil slice.  An array is a function from 0..n-1 to Item records, so  *)
(* that indices and ids read as in the source.                             *)
(***************************************************************************)
EXTENDS Integers, Sequences, FiniteSets, TLC

\* Bounds of the model.
MaxItems == 3
MaxValuePlusWeight == 3
MaxCapacity == 3

\* Program constants.
min_value == 1
NotBlocked == -1
TooHeavy == -1

\* The nil slice.
Nil == 0

len(arr) == Cardinality(DOMAIN arr)

\* The array a slice reference points to; the nil slice has no elements.
deref(mem, ref) == IF ref = Nil THEN << >> ELSE mem[ref]

\* make_items: ids 0..n-1, not blocked, no block list, nothing selected.
make_items(vw) ==
  [i \in DOMAIN vw |->
     [id |-> i, blocked_by |-> NotBlocked, block_list |-> << >>,
      value |-> vw[i][1], weight |-> vw[i][2], is_selected |-> FALSE]]

\* copy_items: a new array holding the same elements.
\* (a copy that shares the array is what a missing copy would leave)
copy_items_alias(mem, items) == [mem |-> mem, ref |-> items]
copy_items(mem, items) ==
  [mem |-> Append(mem, mem[items]), ref |-> Len(mem) + 1]

RECURSIVE sum_values_from(_, _, _)
sum_values_from(arr, add_all, i) ==
  IF i >= len(arr) THEN 0
  ELSE (IF add_all \/ arr[i].is_selected THEN arr[i].value ELSE 0)
       + sum_values_from(arr, add_all, i + 1)

sum_values(arr, add_all) == sum_values_from(arr, add_all, 0)

RECURSIVE sum_weights_from(_, _, _)
sum_weights_from(arr, add_all, i) ==
  IF i >= len(arr) THEN 0
  ELSE (IF add_all \/ arr[i].is_selected THEN arr[i].weight ELSE 0)
       + sum_weights_from(arr, add_all, i + 1)

sum_weights(arr, add_all) == sum_weights_from(arr, add_all, 0)

\* (solution_value without the too-heavy sentinel)
solution_value_no_sentinel(arr, allowed_weight) == sum_values(arr, FALSE)
solution_value(arr, allowed_weight) ==
  IF sum_weights(arr, FALSE) > allowed_weight THEN TooHeavy
  ELSE sum_values(arr, FALSE)

(***************************************************************************)
(* Exhaustive search (chapter4).  An engine returns the memory it leaves,  *)
(* the reference of its solution, the value and the call count.            *)
(***************************************************************************)
RECURSIVE do_exhaustive_search(_, _, _, _)
do_exhaustive_search(mem, items, allowed_weight, next_index) ==
  IF next_index >= len(mem[items])
  THEN LET c == copy_items(mem, items)
       IN [mem |-> c.mem, sol |-> c.ref,
           value |-> solution_value(mem[items], allowed_weight),
           calls |-> 1, nodes |-> {}]
  ELSE LET m1 == [mem EXCEPT ![items][next_index].is_selected = TRUE]
           r1 == do_exhaustive_search(m1, items, allowed_weight, next_index + 1)
           m2 == [r1.mem EXCEPT ![items][next_index].is_selected = FALSE]
           r2 == do_exhaustive_search(m2, items, allowed_weight, next_index + 1)
           function_calls == r1.calls + r2.calls
       IN IF r2.value > r1.value
          THEN [mem |-> r2.mem, sol |-> r2.sol, value |-> r2.value,
                calls |-> function_calls + 1, nodes |-> {}]
          ELSE [mem |-> r2.mem, sol |-> r1.sol, value |-> r1.value,
                calls |-> function_calls + 1, nodes |-> {}]

exhaustive_search(mem, items, allowed_weight) ==
  do_exhaustive_search(mem, items, allowed_weight, 0)

(***************************************************************************)
(* Exhaustive search of the standalone program (unnamed/part_000).         *)
(***************************************************************************)
RECURSIVE do_exhaustive_search_standalone(_, _, _, _)
do_exhaustive_search_standalone(mem, items, allowed_weight, next_index) ==
  IF next_index >= len(mem[items])
  THEN LET c == copy_items(mem, items)
       IN [mem |-> c.mem, sol |-> c.ref,
           value |-> solution_value(mem[items], allowed_weight),
           calls |-> 1, nodes |-> {}]
  ELSE LET m1 == [mem EXCEPT ![items][next_index].is_selected = TRUE]
           r1 == do_exhaustive_search_standalone(m1, items, allowed_weight,
                                                 next_index + 1)
           m2 == [r1.mem EXCEPT ![items][next_index].is_selected = FALSE]
           r2 == do_exhaustive_search_standalone(m2, items, allowed_weight,
                                                 next_index + 1)
           function_calls == r1.calls + r2.calls
       IN IF r2.value > r1.value
          THEN [mem |-> r2.mem, sol |-> r2.sol, value |-> r2.value,
                calls |-> function_calls, nodes |-> {}]
          ELSE [mem |-> r2.mem, sol |-> r1.sol, value |-> r1.value,
                calls |-> function_calls, nodes |-> {}]

exhaustive_search_standalone(mem, items, allowed_weight) ==
  do_exhaustive_search_standalone(mem, items, allowed_weight, 0)

(***************************************************************************)
(* The last lines of do_branch_and_bound and of do_rods_technique: add the *)
(* call counts and return the branch with the higher value.  The node      *)
(* record remembers what the two branches returned and what the node       *)
(* returns; explored1 tells whether the include branch was called.         *)
(***************************************************************************)
final_comparison_include_on_tie(r1, r2, next_index, explored1, mem_in, mem_out, items) ==
  LET sol_calls1 == r1.calls + r2.calls
      first == r1.value >= r2.value
      node == [next_index |-> next_index, explored1 |-> explored1,
               sol1 |-> r1.sol, value1 |-> r1.value,
               sol2 |-> r2.sol, value2 |-> r2.value,
               sol |-> IF first THEN r1.sol ELSE r2.sol,
               value |-> IF first THEN r1.value ELSE r2.value,
               blocked_in |-> [i \in DOMAIN mem_in[items] |-> mem_in[items][i].blocked_by],
               blocked_out |-> [i \in DOMAIN mem_out[items] |-> mem_out[items][i].blocked_by]]
  IN [mem |-> mem_out, sol |-> node.sol, value |-> node.value,
      calls |-> sol_calls1 + 1, nodes |-> r1.nodes \cup r2.nodes \cup {node}]

final_comparison(r1, r2, next_index, explored1, mem_in, mem_out, items) ==
  LET sol_calls1 == r1.calls + r2.calls
      first == r1.value > r2.value
      node == [next_index |-> next_index, explored1 |-> explored1,
               sol1 |-> r1.sol, value1 |-> r1.value,
               sol2 |-> r2.sol, value2 |-> r2.value,
               sol |-> IF first THEN r1.sol ELSE r2.sol,
               value |-> IF first THEN r1.value ELSE r2.value,
               blocked_in |-> [i \in DOMAIN mem_in[items] |-> mem_in[items][i].blocked_by],
               blocked_out |-> [i \in DOMAIN mem_out[items] |-> mem_out[items][i].blocked_by]]
  IN [mem |-> mem_out, sol |-> node.sol, value |-> node.value,
      calls |-> sol_calls1 + 1, nodes |-> r1.nodes \cup r2.nodes \cup {node}]

(***************************************************************************)
(* Branch and bound (chapter4; chapter2 holds the same function).          *)
(***************************************************************************)
\* The bound test of do_branch_and_bound: nothing below can beat best_value.
bb_bound_reached(current_value, remaing_value, best_value) ==
  current_value + remaing_value <= best_value

\* The capacity test of the include branch (with a variant that forgets it).
fits_always(current_weight, item, allowed_weight) == TRUE
fits(current_weight, item, allowed_weight) ==
  current_weight + item.weight <= allowed_weight

RECURSIVE do_branch_and_bound(_, _, _, _, _, _, _, _)
do_branch_and_bound(mem, items, allowed_weight, next_index, best_value, current_value, current_weight, remaing_value) ==
  IF next_index >= len(mem[items])
  THEN LET c == copy_items(mem, items)
       IN [mem |-> c.mem, sol |-> c.ref, value |-> current_value,
           calls |-> 1, nodes |-> {}]
  ELSE IF bb_bound_reached(current_value, remaing_value, best_value)
  THEN [mem |-> mem, sol |-> Nil, value |-> current_value,
        calls |-> 1, nodes |-> {}]
  ELSE LET item == mem[items][next_index]
           fit == fits(current_weight, item, allowed_weight)
           r1 == IF fit
                 THEN do_branch_and_bound(
                        [mem EXCEPT ![items][next_index].is_selected = TRUE],
                        items, allowed_weight, next_index + 1, best_value,
                        current_value + item.value,
                        current_weight + item.weight,
                        remaing_value - item.value)
                 ELSE [mem |-> mem, sol |-> Nil, value |-> 0,
                       calls |-> 1, nodes |-> {}]
           best_value2 == IF fit /\ r1.value > best_value
                          THEN r1.value ELSE best_value
           m2 == [r1.mem EXCEPT ![items][next_index].is_selected = FALSE]
           r2 == do_branch_and_bound(m2, items, allowed_weight,
                                     next_index + 1, best_value2,
                                     current_value, current_weight,
                                     remaing_value - item.value)
       IN final_comparison(r1, r2, next_index, fit, mem, r2.mem, items)

branch_and_bound(mem, items, allowed_weight) ==
  do_branch_and_bound(mem, items, allowed_weight, 0, 0, 0, 0,
                      sum_values(mem[items], TRUE))

(***************************************************************************)
(* Rod's technique: block lists, blocking and the search.                  *)
(***************************************************************************)
RECURSIVE block_list_from(_, _, _)
block_list_from(arr, i, j) ==
  IF j >= len(arr) THEN << >>
  ELSE (IF i # j /\ arr[i].weight <= arr[j].weight
                 /\ arr[i].value >= arr[j].value
        THEN << arr[j].id >> ELSE << >>)
       \o block_list_from(arr, i, j + 1)

\* The outer loop of make_block_lists, from item i on.
RECURSIVE make_block_lists_from(_, _)
make_block_lists_from(arr, i) ==
  IF i >= len(arr) THEN arr
  ELSE make_block_lists_from(
         [arr EXCEPT ![i].block_list = block_list_from(arr, i, 0)], i + 1)

make_block_lists(arr) == make_block_lists_from(arr, 0)

RECURSIVE block_items_from(_, _, _)
block_items_from(source, arr, k) ==
  IF k > Len(source.block_list) THEN arr
  ELSE LET blocked_by == source.block_list[k]
       IN block_items_from(
            source,
            IF arr[blocked_by].blocked_by = NotBlocked
            THEN [arr EXCEPT ![blocked_by].blocked_by = source.id]
            ELSE arr,
            k + 1)

block_items(source, arr) == block_items_from(source, arr, 1)

RECURSIVE unblock_items_from(_, _, _)
unblock_items_from(source, arr, k) ==
  IF k > Len(source.block_list) THEN arr
  ELSE LET blocked_by == source.block_list[k]
       IN unblock_items_from(
            source,
            IF arr[blocked_by].blocked_by = source.id
            THEN [arr EXCEPT ![blocked_by].blocked_by = NotBlocked]
            ELSE arr,
            k + 1)

\* (unblock_items releasing nothing)
unblock_items_none(source, arr) == arr
unblock_items(source, arr) == unblock_items_from(source, arr, 1)

\* The bound test of do_rods_technique (with a variant that never prunes).
rods_bound_never_reached(current_value, remaing_value, best_value) == FALSE
rods_bound_reached(current_value, remaing_value, best_value) ==
  current_value + remaing_value <= best_value

RECURSIVE do_rods_technique(_, _, _, _, _, _, _, _)
do_rods_technique(mem, items, allowed_weight, next_index, best_value, current_value, current_weight, remaing_value) ==
  IF next_index >= len(mem[items])
  THEN LET c == copy_items(mem, items)
       IN [mem |-> c.mem, sol |-> c.ref, value |-> current_value,
           calls |-> 1, nodes |-> {}]
  ELSE IF rods_bound_reached(current_value, remaing_value, best_value)
  THEN [mem |-> mem, sol |-> Nil, value |-> current_value,
        calls |-> 1, nodes |-> {}]
  ELSE LET item == mem[items][next_index]
           explored1 == /\ item.blocked_by = NotBlocked
                        /\ fits(current_weight, item, allowed_weight)
           r1 == IF explored1
                 THEN do_rods_technique(
                        [mem EXCEPT ![items][next_index].is_selected = TRUE],
                        items, allowed_weight, next_index + 1, best_value,
                        current_value + item.value,
                        current_weight + item.weight,
                        remaing_value - item.value)
                 ELSE [mem |-> mem, sol |-> Nil, value |-> 0,
                       calls |-> 0, nodes |-> {}]
           best_value2 == IF explored1 /\ r1.value > best_value
                          THEN r1.value ELSE best_value
           m2 == [r1.mem EXCEPT ![items][next_index].is_selected = FALSE]
           m3 == [m2 EXCEPT ![items] = block_items(m2[items][next_index], m2[items])]
           r2 == do_rods_technique(m3, items, allowed_weight,
                                   next_index + 1, best_value2,
                                   current_value, current_weight,
                                   remaing_value - item.value)
           m4 == [r2.mem EXCEPT
                    ![items] = unblock_items(r2.mem[items][next_index],
                                             r2.mem[items])]
       IN final_comparison(r1, r2, next_index, explored1, mem, m4, items)

rods_technique(mem, items, allowed_weight) ==
  LET remaing_value == sum_values(mem[items], TRUE)
      m1 == [mem EXCEPT ![items] = make_block_lists(mem[items])]
  IN do_rods_technique(m1, items, allowed_weight, 0, 0, 0, 0, remaing_value)

(***************************************************************************)
(* sort.Slice with less(i, j) = len(block_list i) > len(block_list j).     *)
(* The sort is not stable: any arrangement of the elements in which no     *)
(* later element is less than an earlier one may come out.  order[i] is    *)
(* the old position of the element that ends at position i.                *)
(***************************************************************************)
less(a, b) == Len(a.block_list) > Len(b.block_list)

sort_outcomes(arr) ==
  {order \in Permutations(DOMAIN arr) :
     \A i, j \in DOMAIN arr : i < j => ~less(arr[order[j]], arr[order[i]])}

\* The loop that resets the ids, from item i on.
RECURSIVE reset_ids(_, _)
reset_ids(arr, i) ==
  IF i >= len(arr) THEN arr
  ELSE reset_ids([arr EXCEPT ![i].id = i], i + 1)

\* (rods_technique_sorted without the rebuild of the block lists)
rods_technique_sorted_stale_lists(mem, items, allowed_weight, order) ==
  LET remaing_value == sum_values(mem[items], TRUE)
      listed == make_block_lists(mem[items])
      sorted == [i \in DOMAIN listed |-> listed[order[i]]]
  IN do_rods_technique([mem EXCEPT ![items] = reset_ids(sorted, 0)], items,
                       allowed_weight, 0, 0, 0, 0, remaing_value)

rods_technique_sorted(mem, items, allowed_weight, order) ==
  LET remaing_value == sum_values(mem[items], TRUE)
      listed == make_block_lists(mem[items])
      sorted == [i \in DOMAIN listed |-> listed[order[i]]]
      relisted == make_block_lists(reset_ids(sorted, 0))
  IN do_rods_technique([mem EXCEPT ![items] = relisted], items,
                       allowed_weight, 0, 0, 0, 0, remaing_value)

(***************************************************************************)
(* Dynamic programming.  solution_value_array and prev_weight_array are    *)
(* the two tables; a row is filled from the row before it.                 *)
(***************************************************************************)
\* (tables one column too wide)
getSliceOfSlices_wide(r, c) == [i \in 0 .. r - 1 |-> [j \in 0 .. c |-> 0]]
getSliceOfSlices(r, c) == [i \in 0 .. r - 1 |-> [j \in 0 .. c - 1 |-> 0]]

\* The loop over the first row, from column i on.  (A write past the end of
\* a row would stop the program; the tables are made wide enough.)
RECURSIVE first_row(_, _, _, _)
first_row(arr, allowed_weight, tables, i) ==
  IF i >= allowed_weight + 1 \/ i >= len(tables.solution_value_array[0])
  THEN tables
  ELSE first_row(
         arr, allowed_weight,
         IF arr[0].weight <= i
         THEN [tables EXCEPT !.solution_value_array[0][i] = arr[0].value,
                             !.prev_weight_array[0][i] = -1]
         ELSE [tables EXCEPT !.solution_value_array[0][i] = 0,
                             !.prev_weight_array[0][i] = i],
         i + 1)

value_without_item(arr, tables, i, j) == tables.solution_value_array[i - 1][j]

\* (the include value read from the same column of the row above)
value_with_item_same_column(arr, tables, i, j) ==
  IF arr[i].weight <= j
  THEN tables.solution_value_array[i - 1][j] + arr[i].value
  ELSE 0
value_with_item(arr, tables, i, j) ==
  IF arr[i].weight <= j
  THEN tables.solution_value_array[i - 1][j - arr[i].weight] + arr[i].value
  ELSE 0

\* (the cell taking the item when the two values are equal)
fill_cell_include_on_tie(arr, tables, i, j) ==
  IF /\ arr[i].weight <= j
     /\ value_with_item(arr, tables, i, j) >= value_without_item(arr, tables, i, j)
  THEN [tables EXCEPT
          !.solution_value_array[i][j] = value_with_item(arr, tables, i, j),
          !.prev_weight_array[i][j] = j - arr[i].weight]
  ELSE [tables EXCEPT
          !.solution_value_array[i][j] = value_without_item(arr, tables, i, j),
          !.prev_weight_array[i][j] = j]

\* The cell (i, j): choose the better of the two values.
fill_cell(arr, tables, i, j) ==
  IF value_with_item(arr, tables, i, j) > value_without_item(arr, tables, i, j)
  THEN [tables EXCEPT
          !.solution_value_array[i][j] = value_with_item(arr, tables, i, j),
          !.prev_weight_array[i][j] = j - arr[i].weight]
  ELSE [tables EXCEPT
          !.solution_value_array[i][j] = value_without_item(arr, tables, i, j),
          !.prev_weight_array[i][j] = j]

\* The two nested loops, from cell (i, j) on.
RECURSIVE fill_rows(_, _, _, _, _)
fill_rows(arr, allowed_weight, tables, i, j) ==
  IF i >= len(arr) THEN tables
  ELSE IF j >= allowed_weight + 1 \/ j >= len(tables.solution_value_array[i])
  THEN fill_rows(arr, allowed_weight, tables, i + 1, 0)
  ELSE fill_rows(arr, allowed_weight, fill_cell(arr, tables, i, j), i, j + 1)

RECURSIVE find_items(_, _, _, _)
find_items(arr, prev_weight_array, i, j) ==
  IF i < 0 THEN arr
  ELSE IF prev_weight_array[i][j] # j
  THEN find_items([arr EXCEPT ![i].is_selected = TRUE], prev_weight_array,
                  i - 1, prev_weight_array[i][j])
  ELSE find_items(arr, prev_weight_array, i - 1, j)

dynamic_programming(mem, items, allowed_weight) ==
  LET arr == mem[items]
      tables == fill_rows(
                  arr, allowed_weight,
                  first_row(arr, allowed_weight,
                    [solution_value_array |->
                       getSliceOfSlices(len(arr), allowed_weight + 1),
                     prev_weight_array |->
                       getSliceOfSlices(len(arr), allowed_weight + 1)],
                    0),
                  1, 0)
      cleared == [i \in DOMAIN arr |-> [arr[i] EXCEPT !.is_selected = FALSE]]
      found == find_items(cleared, tables.prev_weight_array,
                          len(arr) - 1, allowed_weight)
  IN [mem |-> [mem EXCEPT ![items] = found], sol |-> items,
      value |-> sum_values(found, FALSE), calls |-> 1, nodes |-> {},
      tables |-> tables]

(***************************************************************************)
(* The programs.  chapter4's main runs the five engines through            *)
(* run_algorithm on one generated item set; the standalone program         *)
(* (unnamed/part_000) runs its own exhaustive search the same way.         *)
(***************************************************************************)
VARIABLES
  program,         \* which main is running
  items,           \* main's item slice (the array it points to)
  allowed_weight,  \* the capacity handed to every engine
  generated,       \* the item set as make_items returned it
  results,         \* per engine, what its run_algorithm printed
  pc               \* how many calls of run_algorithm main has made

vars == << program, items, allowed_weight, generated, results, pc >>

Engines ==
  {"exhaustive_search", "branch_and_bound", "rods_technique",
   "rods_technique_sorted", "dynamic_programming"}

StandaloneEngines == {"exhaustive_search_standalone"}

\* The calls of run_algorithm in main, in order.
MainOrder(prog) ==
  IF prog = "chapter4"
  THEN << "exhaustive_search", "branch_and_bound", "rods_technique",
          "rods_technique_sorted", "dynamic_programming" >>
  ELSE << "exhaustive_search_standalone" >>

NotRun == [ran |-> FALSE]

\* The concrete scenario of the specification: (value, weight) pairs.
Scenario ==
  [pairs |-> [i \in 0 .. 2 |-> IF i = 0 THEN << 10, 6 >> ELSE << 6, 4 >>],
   capacity |-> 10]

\* The (value, weight) pairs an item may have: both positive, and small.
ItemKinds ==
  {vw \in (min_value .. MaxValuePlusWeight) \X (1 .. MaxValuePlusWeight) :
     vw[1] + vw[2] <= MaxValuePlusWeight}

ItemSets == UNION {[0 .. n - 1 -> ItemKinds] : n \in 1 .. MaxItems}

\* The caller's slice points to array 1 of the memory.
CallerItems == 1

call_engine(alg, mem, test_items, capacity, order) ==
  CASE alg = "exhaustive_search" -> exhaustive_search(mem, test_items, capacity)
    [] alg = "branch_and_bound" -> branch_and_bound(mem, test_items, capacity)
    [] alg = "rods_technique" -> rods_technique(mem, test_items, capacity)
    [] alg = "rods_technique_sorted" ->
         rods_technique_sorted(mem, test_items, capacity, order)
    [] alg = "dynamic_programming" ->
         dynamic_programming(mem, test_items, capacity)
    [] alg = "exhaustive_search_standalone" ->
         exhaustive_search_standalone(mem, test_items, capacity)

\* (run_algorithm handing the caller's slice itself to the engine)
run_algorithm_on_caller(alg, caller_items, capacity, order) ==
  LET r == call_engine(alg, << caller_items >>, CallerItems, capacity, order)
      solution == deref(r.mem, r.sol)
  IN [items |-> r.mem[CallerItems],
      report |-> [ran |-> TRUE,
                  solution |-> solution,
                  total_value |-> r.value,
                  weight |-> sum_weights(solution, FALSE),
                  function_calls |-> r.calls,
                  nodes |-> r.nodes,
                  order |-> order,
                  tables |-> IF alg = "dynamic_programming"
                             THEN r.tables ELSE << >>]]

\* run_algorithm: copy the items, run the engine on the copy, report.
\* Returns the caller's array as the call leaves it, and the report.
run_algorithm(alg, caller_items, capacity, order) ==
  LET c == copy_items(<< caller_items >>, CallerItems)
      r == call_engine(alg, c.mem, c.ref, capacity, order)
      solution == deref(r.mem, r.sol)
  IN [items |-> r.mem[CallerItems],
      report |-> [ran |-> TRUE,
                  solution |-> solution,
                  total_value |-> r.value,
                  weight |-> sum_weights(solution, FALSE),
                  function_calls |-> r.calls,
                  nodes |-> r.nodes,
                  order |-> order,
                  tables |-> IF alg = "dynamic_programming"
                             THEN r.tables ELSE << >>]]

\* The orders sort.Slice may leave the copy in, inside rods_technique_sorted.
sort_orders(caller_items) == sort_outcomes(make_block_lists(caller_items))

\* main up to its first call of run_algorithm.
main(prog) ==
  /\ program = prog
  /\ \/ /\ \E vw \in ItemSets : generated = make_items(vw)
        /\ allowed_weight \in 0 .. MaxCapacity
     \/ /\ generated = make_items(Scenario.pairs)
        /\ allowed_weight = Scenario.capacity
  /\ items = generated
  /\ results = [alg \in (IF prog = "chapter4" THEN Engines
                         ELSE StandaloneEngines) |-> NotRun]
  /\ pc = 0

Init == main("chapter4")

InitStandalone == main("standalone")

Run(alg, order) ==
  LET out == run_algorithm(alg, items, allowed_weight, order)
  IN /\ pc < Len(MainOrder(program))
     /\ MainOrder(program)[pc + 1] = alg
     /\ items' = out.items
     /\ results' = [results EXCEPT ![alg] = out.report]
     /\ pc' = pc + 1
     /\ UNCHANGED << program, allowed_weight, generated >>

RunExhaustiveSearch == Run("exhaustive_search", << >>)

RunBranchAndBound == Run("branch_and_bound", << >>)

RunRodsTechnique == Run("rods_technique", << >>)

RunRodsTechniqueSorted ==
  /\ pc < Len(MainOrder(program))
  /\ MainOrder(program)[pc + 1] = "rods_technique_sorted"
  /\ LET orders == sort_orders(items)
     IN \E order \in orders : Run("rods_technique_sorted", order)

RunDynamicProgramming == Run("dynamic_programming", << >>)

RunStandaloneExhaustiveSearch == Run("exhaustive_search_standalone", << >>)

Next ==
  \/ RunExhaustiveSearch
  \/ RunBranchAndBound
  \/ RunRodsTechnique
  \/ RunRodsTechniqueSorted
  \/ RunDynamicProgramming

Spec == Init /\ [][Next]_vars

NextStandalone == RunStandaloneExhaustiveSearch

SpecStandalone == InitStandalone /\ [][NextStandalone]_vars

(***************************************************************************)
(* What the properties speak of.                                           *)
(***************************************************************************)
Ran(alg) == alg \in DOMAIN results /\ results[alg].ran

AllRan == \A alg \in Engines : Ran(alg)

RECURSIVE TotalOver(_, _, _)
TotalOver(arr, S, field) ==
  IF S = {} THEN 0
  ELSE LET i == CHOOSE x \in S : TRUE
       IN (IF field = "value" THEN arr[i].value ELSE arr[i].weight)
          + TotalOver(arr, S \ {i}, field)

\* The subsets of the items whose total weight is within the capacity.
Feasible(arr, capacity) ==
  {S \in SUBSET (DOMAIN arr) : TotalOver(arr, S, "weight") <= capacity}

\* The maximum total value over the feasible subsets.
OptimalValue(arr, capacity) ==
  CHOOSE v \in {TotalOver(arr, S, "value") : S \in Feasible(arr, capacity)} :
    \A S \in Feasible(arr, capacity) : TotalOver(arr, S, "value") <= v

Selected(solution) == {i \in DOMAIN solution : solution[i].is_selected}

\* C1: every engine of chapter4 that has run returned the maximum total
\* value over the subsets of the generated items whose total weight is
\* within the capacity; hence all five return the same value.
C1_AllEnginesOptimal ==
  pc > 0 =>
    LET optimum == OptimalValue(generated, allowed_weight)
    IN \A alg \in Engines :
         Ran(alg) =>
           /\ results[alg].total_value = optimum
           /\ \A other \in Engines :
                Ran(other) =>
                  results[other].total_value = results[alg].total_value

\* All five engines have run on a set of which some but not all items fit.
C1_Witness ==
  /\ AllRan
  /\ results["dynamic_programming"].total_value > 0
  /\ sum_weights(generated, TRUE) > allowed_weight

\* C2: the items selected in the solution an engine returns weigh no more
\* than the capacity.
C2_WeightWithinCapacity ==
  \A alg \in Engines :
    Ran(alg) => TotalOver(results[alg].solution,
                          Selected(results[alg].solution), "weight")
                  <= allowed_weight

\* All engines have run where an item had to be left out for its weight.
C2_Witness ==
  /\ AllRan
  /\ \E i \in DOMAIN generated : generated[i].weight > allowed_weight
  /\ \A alg \in Engines : Selected(results[alg].solution) # {}

\* C3: the value an engine returns is the sum of the values of the items
\* selected in the solution it returns, and that solution is a snapshot of
\* all the items, never the nil slice of a pruned, blocked or too-heavy
\* branch.
C3_ValueIsSumOfSelected ==
  \A alg \in Engines :
    Ran(alg) =>
      /\ DOMAIN results[alg].solution = DOMAIN generated
      /\ results[alg].total_value
           = TotalOver(results[alg].solution,
                       Selected(results[alg].solution), "value")

\* Branch and bound and Rod's technique have run through a node one of
\* whose branches returned the nil slice, and returned a positive value.
C3_Witness ==
  /\ AllRan
  /\ \A alg \in {"branch_and_bound", "rods_technique", "rods_technique_sorted"} :
       /\ results[alg].total_value > 0
       /\ \E node \in results[alg].nodes : node.sol1 = Nil \/ node.sol2 = Nil

\* C4: branch and bound makes no more calls than exhaustive search, and
\* Rod's technique no more than branch and bound, on the same input.
C4_CallCountsOrdered ==
  /\ Ran("exhaustive_search") /\ Ran("branch_and_bound") =>
       results["branch_and_bound"].function_calls
         <= results["exhaustive_search"].function_calls
  /\ Ran("branch_and_bound") /\ Ran("rods_technique") =>
       results["rods_technique"].function_calls
         <= results["branch_and_bound"].function_calls

\* The three engines have run and each made fewer calls than the one before.
C4_Witness ==
  /\ Ran("exhaustive_search") /\ Ran("branch_and_bound") /\ Ran("rods_technique")
  /\ results["branch_and_bound"].function_calls
       < results["exhaustive_search"].function_calls
  /\ results["rods_technique"].function_calls
       < results["branch_and_bound"].function_calls

\* C5: rods_technique_sorted returns the value rods_technique returns,
\* whichever order the sort left items of equal block list length in.
C5_SortedSameValue ==
  Ran("rods_technique") /\ Ran("rods_technique_sorted") =>
    results["rods_technique_sorted"].total_value
      = results["rods_technique"].total_value

\* Both have run, the sort had several outcomes to choose from, and the one
\* it chose moved an item.
C5_Witness ==
  /\ Ran("rods_technique") /\ Ran("rods_technique_sorted")
  /\ Cardinality(sort_orders(generated)) > 1
  /\ \E i \in DOMAIN generated : results["rods_technique_sorted"].order[i] # i
  /\ results["rods_technique_sorted"].total_value > 0

InScenario ==
  generated = make_items(Scenario.pairs) /\ allowed_weight = Scenario.capacity

\* The (value, weight) pairs of the selected items of a solution.
SelectedPairs(solution) ==
  {<< solution[i].value, solution[i].weight >> : i \in Selected(solution)}

\* C6 as stated: on items (10,6), (6,4), (6,4) with capacity 10 every engine
\* returns value 12 with the second and third items selected, weight 8.
C6_ScenarioValue12 ==
  InScenario =>
    \A alg \in Engines :
      Ran(alg) =>
        /\ results[alg].total_value = 12
        /\ Selected(results[alg].solution) = {1, 2}
        /\ results[alg].weight = 8

\* C6 as amended: on that input every engine returns value 16 with the
\* (10,6) item and exactly one of the two (6,4) items selected, weight 10.
C6_ScenarioValue16 ==
  InScenario =>
    \A alg \in Engines :
      Ran(alg) =>
        /\ results[alg].total_value = 16
        /\ Cardinality(Selected(results[alg].solution)) = 2
        /\ SelectedPairs(results[alg].solution) = {<< 10, 6 >>, << 6, 4 >>}
        /\ results[alg].weight = 10

\* All five engines have run on the scenario.
C6_Witness == InScenario /\ AllRan

\* C7: the two tables of dynamic_programming have one row per item and
\* capacity + 1 columns, and the value it returns is the last cell of
\* solution_value_array.
C7_TableShapeAndValue ==
  Ran("dynamic_programming") =>
    LET r == results["dynamic_programming"]
        n == len(generated)
    IN /\ DOMAIN r.tables.solution_value_array = 0 .. n - 1
       /\ DOMAIN r.tables.prev_weight_array = 0 .. n - 1
       /\ \A i \in 0 .. n - 1 :
            /\ DOMAIN r.tables.solution_value_array[i] = 0 .. allowed_weight
            /\ DOMAIN r.tables.prev_weight_array[i] = 0 .. allowed_weight
       /\ r.total_value = r.tables.solution_value_array[n - 1][allowed_weight]
       /\ r.total_value
            = TotalOver(r.solution, Selected(r.solution), "value")

\* dynamic_programming has run on several items, selected one through a
\* back-pointer of a later row and left another out.
C7_Witness ==
  /\ Ran("dynamic_programming")
  /\ len(generated) > 1
  /\ \E i, j \in DOMAIN generated :
       /\ i > 0
       /\ results["dynamic_programming"].solution[i].is_selected
       /\ ~results["dynamic_programming"].solution[j].is_selected

\* C8: run_algorithm leaves main's items as make_items returned them, in
\* every field and in order; hence the engine main runs after all the
\* others reports what it reports on the freshly generated items.
C8_CallerItemsUnchanged ==
  /\ items = generated
  /\ pc = Len(MainOrder(program)) =>
       LET alg == MainOrder(program)[pc]
       IN results[alg]
            = run_algorithm(alg, generated, allowed_weight,
                            results[alg].order).report

\* main has run every engine; the engines selected items, blocked items
\* and the sort moved an item in their copies.
C8_Witness ==
  /\ AllRan
  /\ \E i \in DOMAIN generated :
       results["rods_technique_sorted"].order[i] # i
  /\ \A alg \in Engines : Selected(results[alg].solution) # {}
  /\ \E i \in DOMAIN generated :
       results["rods_technique"].solution[i].block_list # << >>

\* C9: every implementation of exhaustive search returns a call count of
\* 2^(n+1) - 1 for n items.
C9_ExhaustiveCallCount ==
  \A alg \in {"exhaustive_search", "exhaustive_search_standalone"} :
    Ran(alg) =>
      results[alg].function_calls = 2 ^ (len(generated) + 1) - 1

SearchEngines == {"branch_and_bound", "rods_technique", "rods_technique_sorted"}

\* C10 as stated: at a node of branch and bound or of Rod's technique whose
\* include and exclude branches were both explored and returned equal
\* values, the node returns the include branch's snapshot.
C10_TiesFavorInclude ==
  \A alg \in SearchEngines :
    Ran(alg) =>
      \A node \in results[alg].nodes :
        node.explored1 /\ node.value1 = node.value2 => node.sol = node.sol1

\* C10 as amended: at such a node the node returns the exclude branch's
\* snapshot and value.
C10_TiesFavorExclude ==
  \A alg \in SearchEngines :
    Ran(alg) =>
      \A node \in results[alg].nodes :
        node.explored1 /\ node.value1 = node.value2 =>
          node.sol = node.sol2 /\ node.value = node.value2

TiedNode(node) ==
  /\ node.explored1
  /\ node.value1 = node.value2
  /\ node.sol1 # Nil /\ node.sol2 # Nil /\ node.sol1 # node.sol2

\* Branch and bound and Rod's technique each went through a node whose two
\* branches returned different snapshots of equal value.
C10_Witness ==
  /\ Ran("branch_and_bound") /\ Ran("rods_technique")
  /\ \E node \in results["branch_and_bound"].nodes : TiedNode(node)
  /\ \E node \in results["rods_technique"].nodes : TiedNode(node)

(***************************************************************************)
(* Ties in the dynamic programming table.                                  *)
(***************************************************************************)
\* The column j at which the loop that finds the items reads row i, having
\* started in row last at column capacity.
RECURSIVE find_items_column(_, _, _, _)
find_items_column(prev_weight_array, i, last, capacity) ==
  IF i >= last THEN capacity
  ELSE prev_weight_array[i + 1][find_items_column(prev_weight_array, i + 1,
                                                  last, capacity)]

\* Cell (i, w) of a row i >= 1 where item i fits and the value without it
\* equals the value with it.
TiedCell(arr, tables, i, w) ==
  /\ arr[i].weight <= w
  /\ tables.solution_value_array[i - 1][w]
       = tables.solution_value_array[i - 1][w - arr[i].weight] + arr[i].value

\* C11 as the specification states it: a tied cell of dynamic_programming
\* records the include choice (back-pointer w - weight(i)), and the
\* reconstruction marks item i selected when it passes through the cell.
C11_TiedCellRecordsInclude ==
  Ran("dynamic_programming") =>
    LET r == results["dynamic_programming"]
        last == len(generated) - 1
    IN \A i \in 1 .. last : \A w \in 0 .. allowed_weight :
         TiedCell(generated, r.tables, i, w) =>
           /\ r.tables.prev_weight_array[i][w] = w - generated[i].weight
           /\ find_items_column(r.tables.prev_weight_array, i, last,
                                allowed_weight) = w
                => r.solution[i].is_selected

\* C11 as the code has it: a tied cell of dynamic_programming records the
\* exclude choice (back-pointer w, the cell's own column), and the
\* reconstruction leaves item i unselected when it passes through the cell.
C11_TiedCellRecordsExclude ==
  Ran("dynamic_programming") =>
    LET r == results["dynamic_programming"]
        last == len(generated) - 1
    IN \A i \in 1 .. last : \A w \in 0 .. allowed_weight :
         TiedCell(generated, r.tables, i, w) =>
           /\ r.tables.prev_weight_array[i][w] = w
           /\ find_items_column(r.tables.prev_weight_array, i, last,
                                allowed_weight) = w
                => ~r.solution[i].is_selected

\* dynamic_programming has run, and the reconstruction passed through a
\* tied cell.
C11_Witness ==
  /\ Ran("dynamic_programming")
  /\ LET r == results["dynamic_programming"]
         last == len(generated) - 1
     IN \E i \in 1 .. last : \E w \in 0 .. allowed_weight :
          /\ TiedCell(generated, r.tables, i, w)
          /\ find_items_column(r.tables.prev_weight_array, i, last,
                               allowed_weight) = w

(***************************************************************************)
(* The scope of the blocks in Rod's technique.                             *)
(***************************************************************************)
RodsEngines == {"rods_technique", "rods_technique_sorted"}

\* The working set as the engine hands it to do_rods_technique: the copy of
\* the generated items with its block lists made (and, for the sorted
\* engine, in the order the sort left it, with ids reset and lists rebuilt).
WorkingSet(alg) ==
  LET listed == make_block_lists(generated)
  IN IF alg = "rods_technique" THEN listed
     ELSE make_block_lists(
            reset_ids([i \in DOMAIN listed |-> listed[results[alg].order[i]]],
                      0))

Unblocked(blocked) == \A i \in DOMAIN blocked : blocked[i] = NotBlocked

\* C12: every call of do_rods_technique returns with the blocked_by of every
\* item of the working set as it was when the call was entered; a call sees
\* no block but those of the items before its own next_index (the excluded
\* items on its path), never one set in a branch explored earlier; and when
\* rods_technique and rods_technique_sorted return (the call with next_index
\* 0 returns) every item of the working set is unblocked.
C12_BlocksAreScoped ==
  \A alg \in RodsEngines :
    Ran(alg) =>
      \A node \in results[alg].nodes :
        /\ node.blocked_out = node.blocked_in
        /\ \A i \in DOMAIN node.blocked_in :
             node.blocked_in[i] # NotBlocked
               => node.blocked_in[i] \in 0 .. node.next_index - 1
        /\ node.next_index = 0 => Unblocked(node.blocked_out)

\* A call whose block_items blocked an item and whose exclude branch came
\* back with the nil slice, that is, through the prune short-circuit.
BlockedThenPruned(alg, node) ==
  LET source == WorkingSet(alg)[node.next_index]
  IN /\ \E k \in 1 .. Len(source.block_list) :
          node.blocked_in[source.block_list[k]] = NotBlocked
     /\ node.sol2 = Nil

\* A call entered with an item blocked by an excluded item of its path, and
\* whose own block_items blocked a further item.
BlockedWithinBlocked(alg, node) ==
  LET source == WorkingSet(alg)[node.next_index]
  IN /\ ~Unblocked(node.blocked_in)
     /\ \E k \in 1 .. Len(source.block_list) :
          node.blocked_in[source.block_list[k]] = NotBlocked

\* Both engines have run, and in each some call blocked an item before an
\* exclude branch that was pruned, and some call blocked an item while
\* another was already blocked.
C12_Witness ==
  \A alg \in RodsEngines :
    /\ Ran(alg)
    /\ \E node \in results[alg].nodes : BlockedThenPruned(alg, node)
    /\ \E node \in results[alg].nodes : BlockedWithinBlocked(alg, node)

====
